---- MODULE Spec2Model ----
(***************************************************************************)
(* Marina API (kdmarble/Marina): the handlers of /boats, /loads and /oauth.  *)
(*                                                                         *)
(* The store is Google Datastore, one kind per entity (Boat, Load, User),   *)
(* keyed by integer ids.  Every request handler is an async function; a step of   *)
(* the model is what a handler (or a promise chain a handler started and    *)
(* did not wait for) does between two completed store calls.                *)
(*                                                                         *)
(* Request parameters are the raw strings of the URL (req.params); keys are *)
(* built with parseInt(id, 10); comparisons in the handlers are on the raw  *)
(* strings.                                                                 *)
(***************************************************************************)
EXTENDS Integers, Sequences, FiniteSets, Bags, TLC

VARIABLES
    boats,   \* Datastore kind "Boat":  key -> [name, type, length, public,
             \*                                owner, loads]
    loads,   \* Datastore kind "Load":  key -> [weight, content,
             \*                                delivery_date, current_boat]
    users,   \* Datastore kind "User":  key -> [uuid]
    reqs,    \* request handlers between two of their awaits
    tasks,   \* promise chains started by a handler and not awaited (a bag)
    issued,  \* number of requests received so far
    last,    \* the handler that responded last: its locals and its status
    pages    \* the collection pages served since the last write

vars == <<boats, loads, users, reqs, tasks, issued, last, pages>>

----------------------------------------------------------------------------
(* Bounds of the model                                                      *)

\* Requests the clients send in one behaviour.
MaxRequests == 2

\* Requests the client of the Boat resource sends in one behaviour.
MaxBoatRequests == 1

\* Collection requests in one behaviour, and the entities a kind holds then.
MaxListRequests == 3
MaxEntities == 11

\* Keys of the entities that exist initially (each kind has its own keys).
BoatKeys == {1, 2}
LoadKeys == {1, 2}

\* The id strings clients put in URLs: "01" is another spelling of key 1.
\* (Digits below knows the characters of each.)
BoatParams == {"1", "2", "01"}
LoadParams == {"1", "2"}

\* Subject ids (the JWT's sub); NoUser is res.locals.userid with no token.
Subjects == {"u1", "u2"}
NoUser == "undefined"

\* JavaScript null, as stored in current_boat.
Null == "null"

\* JavaScript undefined: a property or a header that is not there.
Undefined == "undefined"

\* The values a JSON body can give to `public`: the booleans, and strings.
JsTrue == "true"
JsFalse == "false"
StrTrue == "'true'"
StrFalse == "'false'"

\* The JSON bodies clients send to /boats: the scenario's boat (the name of
\* boat 1), another full boat, two partial ones, and three invalid ones.  A
\* length that is not supplied is 0 (both are falsy, neither is > 1000).
FullBoat(name, type, length, public, owner) ==
    [id |-> Undefined, name |-> name, type |-> type, length |-> length,
     public |-> public, owner |-> owner]

BoatBodies ==
    { FullBoat("Orca", "Sloop", 40, JsTrue, "u1"),
      FullBoat("Nemo", "Yawl", 30, StrTrue, "u2"),
      FullBoat(Undefined, "Yawl", 0, Undefined, Undefined),
      FullBoat("Nemo", Undefined, 0, Undefined, Undefined),
      FullBoat("Orca", "Sloop", 1001, StrFalse, "u1"),
      FullBoat("S.S. Orca", "Sloop", 40, StrFalse, "u1"),
      FullBoat("The Flying Dutchman of the Seas", "Sloop", 40, JsFalse, "u1") }

\* The JSON bodies clients send to /loads: a full load (with and without
\* current_boat), and three that validate_request refuses.  A weight that is
\* not supplied is 0.
FullLoad(weight, content, delivery_date, current_boat) ==
    [id |-> Undefined, weight |-> weight, content |-> content,
     delivery_date |-> delivery_date, current_boat |-> current_boat]

LoadBodies ==
    { FullLoad(250, "grain", "2024-02-02", "2"),
      FullLoad(250, "grain", "2024-02-02", Undefined),
      FullLoad(0, "grain", "2024-02-02", "2"),
      FullLoad(250, "nuts & bolts", "2024-02-02", "2"),
      FullLoad(250, "2000", "2024-02-02", "2") }

\* content > 1000: the string is converted to a number (NaN for a word).
exceeds_1000(content) == content = "2000"

\* name.length of the strings above.
StrLen(str) ==
    CASE str = "Orca" -> 4
      [] str = "Nemo" -> 4
      [] str = "Otter" -> 5
      [] str = "S.S. Orca" -> 9
      [] str = "The Flying Dutchman of the Seas" -> 31

\* new RegExp("^[a-zA-Z0-9 ]*$").test(str); test(undefined) tests the
\* string "undefined".
pattern_test(str) == str \notin {"S.S. Orca", "nuts & bolts"}

\* !x of JavaScript on a value of a body or of an entity.
Not(x) == x \in {Undefined, Null, JsFalse, ""}

\* The headers a request carries: <<req.accepts("json"), Content-Type>>.
Headers == BOOLEAN \X {"application/json", Undefined}

----------------------------------------------------------------------------
(* parseInt(id, 10) on the id strings of the model                          *)

Digits(s) ==
    CASE s = "1" -> <<1>>
      [] s = "2" -> <<2>>
      [] s = "01" -> <<0, 1>>
      [] s = "0" -> <<0>>
      [] s = "5" -> <<5>>
      [] s = "10" -> <<1, 0>>

RECURSIVE DecimalValue(_, _)
DecimalValue(ds, acc) ==
    IF ds = <<>> THEN acc
    ELSE DecimalValue(Tail(ds), 10 * acc + Head(ds))

parseInt(s) == DecimalValue(Digits(s), 0)

----------------------------------------------------------------------------
(* The store: get yields data[0], here <<>> (undefined) or <<entity>>;      *)
(* save is an upsert; delete removes the key.                               *)

datastore_get(kind, key) ==
    IF key \in DOMAIN kind THEN <<kind[key]>> ELSE <<>>

datastore_save(kind, key, data) ==
    [k \in DOMAIN kind \cup {key} |-> IF k = key THEN data ELSE kind[k]]

datastore_delete(kind, key) ==
    [k \in DOMAIN kind \ {key} |-> kind[k]]

\* !x of JavaScript on a current_boat value (null or a non-empty string).
Falsy(x) == x = Null

\* The keys of a query's result: a kind's entities come in key order.
RECURSIVE KeysInOrder(_)
KeysInOrder(keys) ==
    IF keys = {} THEN <<>>
    ELSE LET first == CHOOSE k \in keys : \A j \in keys : k <= j
         IN <<first>> \o KeysInOrder(keys \ {first})

\* A query with an offset that skips every result.
runQuery_offset_ignored(matching, limit, offset) ==
    LET all == KeysInOrder(matching)
    IN IF limit = Undefined \/ DecimalValue(Digits(limit), 0) <= 0
          \/ DecimalValue(Digits(limit), 0) >= Len(all)
       THEN all
       ELSE SubSeq(all, 1, DecimalValue(Digits(limit), 0))

\* datastore.runQuery(createQuery(KIND).filter(...).limit(limit)
\* .offset(offset)) over the keys that match the filter: the offset and the
\* limit are the numbers the query strings spell; one that is not given, or
\* is not above 0, is not applied.
runQuery(matching, limit, offset) ==
    LET all == KeysInOrder(matching)
        skip == IF offset = Undefined THEN 0
                ELSE DecimalValue(Digits(offset), 0)
        rest == IF skip >= Len(all) THEN <<>>
                ELSE SubSeq(all, skip + 1, Len(all))
        most == IF limit = Undefined THEN 0
                ELSE DecimalValue(Digits(limit), 0)
    IN IF most <= 0 \/ most >= Len(rest) THEN rest
       ELSE SubSeq(rest, 1, most)

----------------------------------------------------------------------------
(* Promise chains                                                           *)

Task(fn, boatID, loadID) == [fn |-> fn, boatID |-> boatID, loadID |-> loadID]

RemoveTask(loadID) == [fn |-> "remove_load_from_boat", loadID |-> loadID]

\* datastore.save({key, data}) issued and not yet applied by the store.
SaveLoad(key, data) == [fn |-> "save_load", key |-> key, load |-> data]
SaveBoat(key, data) == [fn |-> "save_boat", key |-> key, boat |-> data]

One(t) == SetToBag({t})

\* n copies of task t
Copies(t, n) == IF n = 0 THEN EmptyBag ELSE [x \in {t} |-> n]

\* A chain that rejects and then undoes the Load write of its assign.
rejected_and_reverted(t) ==
    One([fn |-> "rejected", chain |-> t])
    (+) (IF t.fn = "save_boat" /\ t.boat.loads # <<>>
         THEN One(RemoveTask(t.boat.loads[Len(t.boat.loads)].id))
         ELSE EmptyBag)

\* A store call of chain t rejects.  The chains have no catch and their
\* promises are not awaited by the function that started them: what is left
\* is the rejected promise, and nothing else is started.
rejected(t) == One([fn |-> "rejected", chain |-> t])

\* datastore.get or datastore.save of a promise chain rejects (the store is
\* unavailable, or refuses the call).
datastore_rejects(t) ==
    /\ t.fn # "rejected"
    /\ tasks' = (tasks (-) One(t)) (+) rejected(t)
    /\ UNCHANGED <<boats, loads, users, reqs, issued, last, pages>>

----------------------------------------------------------------------------
(* Responses                                                                *)

NoRequest ==
    [op |-> "none", boat_id |-> "1", load_id |-> "1",
     userid |-> NoUser, pc |-> "done", repeat |-> FALSE,
     accepts |-> TRUE, contentType |-> Undefined, body |-> <<>>,
     key |-> 0,
     boat |-> <<>>, load |-> <<>>, status |-> 0, json |-> <<>>]

Request(op, b, l, u) ==
    [op |-> op, boat_id |-> b, load_id |-> l,
     userid |-> u, pc |-> "get_boat",
     repeat |-> /\ reqs = EmptyBag
                /\ last.op = op
                /\ last.boat_id = b
                /\ last.load_id = l
                /\ last.status = 204,
     accepts |-> TRUE, contentType |-> Undefined, body |-> <<>>,
     key |-> 0,
     boat |-> <<>>, load |-> <<>>, status |-> 0, json |-> <<>>]

\* datastore.key(KIND) is an incomplete key: on save the store allocates an
\* id that no entity has had (here: past the initial keys, one per request).
AllocateId(n) ==
    LET used == BoatKeys \cup LoadKeys
    IN (CHOOSE k \in used : \A j \in used : j <= k) + n

\* A request with headers (req.accepts("json"), req.get("Content-Type")) and
\* a parsed JSON body (req.body).
HttpRequest(op, b, l, u, accepts, contentType, body) ==
    [Request(op, b, l, u) EXCEPT !.accepts = accepts,
                                 !.contentType = contentType,
                                 !.body = body]

\* res.status(code): handler r returns, its locals being those of `now`.
Respond(r, now, code) ==
    /\ last' = [now EXCEPT !.status = code, !.pc = "done"]
    /\ reqs' = reqs (-) One(r)

\* res.status(code).json({Error: message})
Error == [Error |-> "message"]

\* res.status(code).json(json) (or .send(json), .render(view, json))
RespondJson(r, now, code, json) ==
    /\ last' = [now EXCEPT !.status = code, !.pc = "done", !.json = <<json>>]
    /\ reqs' = reqs (-) One(r)

\* The handler catches the error, logs it and returns: no response is sent.
Swallow(r, now) ==
    /\ last' = [now EXCEPT !.pc = "logged"]
    /\ reqs' = reqs (-) One(r)

\* The handler's promise rejects: nothing catches it (the routes register the
\* async handlers directly and index.js installs no error middleware), so no
\* response is sent.
Reject(r, now) ==
    /\ last' = [now EXCEPT !.pc = "rejected"]
    /\ reqs' = reqs (-) One(r)

\* The handler goes on to its next await.
Continue(r, next) ==
    /\ reqs' = (reqs (-) One(r)) (+) One(next)
    /\ last' = last

\* A store with two boats and two loads: boat 1 ("Orca", of u1) has the
\* given `public` value and boat 2 ("Otter", of u2) is not public; load 1 is
\* unassigned or on boat 2 (as a completed PUT /boats/2/loads/1 leaves them).
Store(public, onBoat) ==
    /\ boats = [k \in BoatKeys |->
                  [name |-> IF k = 1 THEN "Orca" ELSE "Otter",
                   type |-> "Sloop",
                   length |-> 40,
                   loads |-> IF onBoat /\ k = 2
                             THEN <<[id |-> "1"]>> ELSE <<>>,
                   public |-> IF k = 1 THEN public ELSE StrFalse,
                   owner |-> IF k = 1 THEN "u1" ELSE "u2"]]
    /\ loads = [k \in LoadKeys |->
                  [weight |-> 100,
                   content |-> "crates",
                   delivery_date |-> "2024-01-01",
                   current_boat |-> IF onBoat /\ k = 1 THEN "2" ELSE Null]]
    /\ users = <<>>

\* No request has been received yet.
Idle ==
    /\ reqs = EmptyBag
    /\ tasks = EmptyBag
    /\ issued = 0
    /\ last = NoRequest
    /\ pages = {}

\* The store a run of the relationship handlers starts from.
Init ==
    /\ \E onBoat \in BOOLEAN : Store(JsTrue, onBoat)
    /\ Idle

----------------------------------------------------------------------------
(* models/load.js                                                           *)

\* add_load_to_boat(boatID, loadID): datastore.get(loadKey).then(...), not
\* returned to the caller.  data[0] undefined throws inside the callback.
loadModel_add_load_to_boat(t) ==
    /\ t.fn = "add_load_to_boat"
    /\ LET key == parseInt(t.loadID)
           data == datastore_get(loads, key)
       IN tasks' = (tasks (-) One(t)) (+)
                   (IF data # <<>> /\ Falsy(data[1].current_boat)
                    THEN One(SaveLoad(key,
                           [weight |-> data[1].weight,
                            content |-> data[1].content,
                            delivery_date |-> data[1].delivery_date,
                            current_boat |-> t.boatID]))
                    ELSE EmptyBag)
    /\ UNCHANGED <<boats, loads, reqs, issued, last, users, pages>>

\* remove_load_from_boat(loadID): datastore.get(loadKey).then(...), not
\* returned to the caller.
loadModel_remove_load_from_boat(t) ==
    /\ t.fn = "remove_load_from_boat"
    /\ LET key == parseInt(t.loadID)
           data == datastore_get(loads, key)
       IN tasks' = (tasks (-) One(t)) (+)
                   (IF data # <<>>
                    THEN One(SaveLoad(key,
                           [weight |-> data[1].weight,
                            content |-> data[1].content,
                            delivery_date |-> data[1].delivery_date,
                            current_boat |-> Null]))
                    ELSE EmptyBag)
    /\ UNCHANGED <<boats, loads, reqs, issued, last, users, pages>>

\* await datastore.save({ key: loadKey, data: newLoad })
datastore_save_load(t) ==
    /\ t.fn = "save_load"
    /\ loads' = datastore_save(loads, t.key, t.load)
    /\ tasks' = tasks (-) One(t)
    /\ pages' = {}
    /\ UNCHANGED <<boats, reqs, issued, last, users>>

----------------------------------------------------------------------------
(* models/boat.js                                                           *)

\* A load_boat that only has the Load written.
load_boat_load_only(boatID, loadID) ==
    One(Task("add_load_to_boat", boatID, loadID))

\* What load_boat(boatID, loadID, req) starts before its promise resolves:
\* loadModel.add_load_to_boat, then datastore.get(boatKey).then(...).
load_boat(boatID, loadID) ==
    One(Task("add_load_to_boat", boatID, loadID))
    (+) One(Task("load_boat", boatID, loadID))

\* The callback of load_boat's datastore.get(boatKey): push and save.
boatModel_load_boat(t) ==
    /\ t.fn = "load_boat"
    /\ LET key == parseInt(t.boatID)
           data == datastore_get(boats, key)
       IN tasks' = (tasks (-) One(t)) (+)
                   (IF data # <<>>
                    THEN One(SaveBoat(key,
                           [name |-> data[1].name,
                            type |-> data[1].type,
                            length |-> data[1].length,
                            loads |-> Append(data[1].loads, [id |-> t.loadID]),
                            public |-> data[1].public,
                            owner |-> data[1].owner]))
                    ELSE EmptyBag)
    /\ UNCHANGED <<boats, loads, reqs, issued, last, users, pages>>

\* What unload_boat(boatID, loadID) starts before its promise resolves.
unload_boat(boatID, loadID) ==
    One(RemoveTask(loadID)) (+) One(Task("unload_boat", boatID, loadID))

\* The callback of unload_boat's datastore.get(boatKey): filter and save.
boatModel_unload_boat(t) ==
    /\ t.fn = "unload_boat"
    /\ LET key == parseInt(t.boatID)
           data == datastore_get(boats, key)
           keep(load) == load.id # t.loadID
       IN tasks' = (tasks (-) One(t)) (+)
                   (IF data # <<>>
                    THEN One(SaveBoat(key,
                           [name |-> data[1].name,
                            type |-> data[1].type,
                            length |-> data[1].length,
                            loads |-> SelectSeq(data[1].loads, keep),
                            public |-> data[1].public,
                            owner |-> data[1].owner]))
                    ELSE EmptyBag)
    /\ UNCHANGED <<boats, loads, reqs, issued, last, users, pages>>

\* The callback of delete_boat's datastore.get(key): for each load of the
\* boat, loadModel.remove_load_from_boat(id, load.id), whose one parameter
\* loadID is bound to the first argument, the boat's id.
boatModel_delete_boat(t) ==
    /\ t.fn = "delete_boat"
    /\ LET data == datastore_get(boats, parseInt(t.boatID))
       IN tasks' = (tasks (-) One(t)) (+)
                   (IF data # <<>> /\ Len(data[1].loads) > 0
                    THEN Copies(RemoveTask(t.boatID), Len(data[1].loads))
                    ELSE EmptyBag)
    /\ UNCHANGED <<boats, loads, reqs, issued, last, users, pages>>

\* await datastore.save({ key: boatKey, data: newBoat })
datastore_save_boat(t) ==
    /\ t.fn = "save_boat"
    /\ boats' = datastore_save(boats, t.key, t.boat)
    /\ tasks' = tasks (-) One(t)
    /\ pages' = {}
    /\ UNCHANGED <<loads, reqs, issued, last, users>>

----------------------------------------------------------------------------
(* controllers/boat.js                                                      *)

\* A guard that refuses every load that is on a boat.
load_boat_conflict_on_any_boat(load, boatID) ==
    load.current_boat # Null

\* load_boat's guard: the load is already on this boat.
load_boat_conflict(load, boatID) ==
    load.current_boat # Null /\ load.current_boat = boatID

\* A guard that forgets the load that is on another boat.
unload_boat_missing_unassigned_only(load, boatID) ==
    load = <<>> \/ Falsy(load[1].current_boat)

\* unload_boat's guard: no such load, or it is not on this boat.
unload_boat_missing(load, boatID) ==
    load = <<>> \/ load[1].current_boat # boatID

\* A test that takes every boat id for an existing boat's.
load_boat_no_boat_never(boat) == FALSE

\* load_boat's tests: the store has no such boat, no such load.
load_boat_no_boat(boat) == boat = <<>>
load_boat_no_load(load) == load = <<>>

\* PUT /boats/:boat_id/loads/:load_id, up to the answer of get_boat.
boatController_load_boat(b, l) ==
    /\ issued < MaxRequests
    /\ issued' = issued + 1
    /\ LET r == Request("load_boat", b, l, NoUser)
           boat == datastore_get(boats, parseInt(b))
       IN IF load_boat_no_boat(boat)
          THEN Respond(r, r, 404)
          ELSE Continue(r, [r EXCEPT !.pc = "get_load", !.boat = boat])
    /\ UNCHANGED <<boats, loads, tasks, users, pages>>

\* ... from the answer of get_load to the response.
boatController_load_boat_load(r) ==
    /\ r.op = "load_boat" /\ r.pc = "get_load"
    /\ LET load == datastore_get(loads, parseInt(r.load_id))
           now == [r EXCEPT !.load = load]
       IN IF load_boat_no_load(load)
          THEN Respond(r, now, 404) /\ tasks' = tasks
          ELSE IF load_boat_conflict(load[1], r.boat_id)
          THEN Respond(r, now, 403) /\ tasks' = tasks
          ELSE /\ tasks' = tasks (+) load_boat(r.boat_id, r.load_id)
               /\ Respond(r, now, 204)
    /\ UNCHANGED <<boats, loads, issued, users, pages>>

\* DELETE /boats/:boat_id/loads/:load_id, up to the answer of get_boat.
boatController_unload_boat(b, l) ==
    /\ issued < MaxRequests
    /\ issued' = issued + 1
    /\ LET r == Request("unload_boat", b, l, NoUser)
           boat == datastore_get(boats, parseInt(b))
       IN IF boat = <<>>
          THEN Respond(r, r, 404)
          ELSE Continue(r, [r EXCEPT !.pc = "get_load", !.boat = boat])
    /\ UNCHANGED <<boats, loads, tasks, users, pages>>

\* ... from the answer of get_load to the response.
boatController_unload_boat_load(r) ==
    /\ r.op = "unload_boat" /\ r.pc = "get_load"
    /\ LET load == datastore_get(loads, parseInt(r.load_id))
           now == [r EXCEPT !.load = load]
       IN IF unload_boat_missing(load, r.boat_id)
          THEN Respond(r, now, 404) /\ tasks' = tasks
          ELSE /\ tasks' = tasks (+) unload_boat(r.boat_id, r.load_id)
               /\ Respond(r, now, 204)
    /\ UNCHANGED <<boats, loads, issued, users, pages>>

\* DELETE /boats/:boat_id, up to the answer of get_boat; the model's
\* delete_boat then issues its get (not awaited) and its delete (awaited).
boatController_delete_boat(b, userid, contentTypeSent) ==
    /\ issued < MaxRequests
    /\ issued' = issued + 1
    /\ LET r == HttpRequest("delete_boat", b, b, userid, TRUE,
                             IF contentTypeSent THEN "application/json"
                                                ELSE Undefined, <<>>)
           boat == datastore_get(boats, parseInt(b))
           now == [r EXCEPT !.boat = boat]
       IN IF contentTypeSent
          THEN Respond(r, r, 415) /\ tasks' = tasks
          ELSE IF boat = <<>>
          THEN Respond(r, now, 404) /\ tasks' = tasks
          ELSE IF boat[1].owner # userid
          THEN Respond(r, now, 401) /\ tasks' = tasks
          ELSE /\ tasks' = tasks (+) One(Task("delete_boat", b, b))
               /\ Continue(r, [now EXCEPT !.pc = "delete"])
    /\ UNCHANGED <<boats, loads, users, pages>>

\* A delete_boat that removes the boat once its cleanup chain has fulfilled.
delete_boat_awaits_cleanup(boatID, t) ==
    \/ t \in {Task("delete_boat", boatID, boatID), RemoveTask(boatID)}
    \/ t.fn = "save_load" /\ t.key = parseInt(boatID)
    \/ t.fn = "rejected"

\* delete_boat's datastore.delete(key) waits for chain t: for none, the
\* promise of its datastore.get(key).then(...) is neither awaited nor
\* returned.
delete_boat_awaits(boatID, t) == FALSE

\* ... the answer of datastore.delete(key), and the response.
boatController_delete_boat_delete(r) ==
    /\ r.op = "delete_boat" /\ r.pc = "delete"
    /\ \A t \in BagToSet(tasks) : ~ delete_boat_awaits(r.boat_id, t)
    /\ boats' = datastore_delete(boats, parseInt(r.boat_id))
    /\ Respond(r, r, 204)
    /\ pages' = {}
    /\ UNCHANGED <<loads, tasks, issued, users>>

----------------------------------------------------------------------------
(* controllers/load.js                                                      *)

\* DELETE /loads/:load_id, up to the answer of get_load; a load on a boat
\* is unloaded first (boatModel.unload_boat, whose writes are not awaited).
loadController_delete_load(l) ==
    /\ issued < MaxRequests
    /\ issued' = issued + 1
    /\ LET r == Request("delete_load", l, l, NoUser)
           load == datastore_get(loads, parseInt(l))
           now == [r EXCEPT !.load = load]
       IN IF load = <<>>
          THEN Respond(r, now, 404) /\ tasks' = tasks
          ELSE /\ tasks' = tasks (+)
                     (IF Falsy(load[1].current_boat)
                      THEN EmptyBag
                      ELSE unload_boat(load[1].current_boat, l))
               /\ Continue(r, [now EXCEPT !.pc = "delete"])
    /\ UNCHANGED <<boats, loads, users, pages>>

\* ... the answer of loadModel.delete_load, and the response.
loadController_delete_load_delete(r) ==
    /\ r.op = "delete_load" /\ r.pc = "delete"
    /\ loads' = datastore_delete(loads, parseInt(r.load_id))
    /\ Respond(r, r, 204)
    /\ pages' = {}
    /\ UNCHANGED <<boats, tasks, issued, users>>

----------------------------------------------------------------------------
(* controllers/boat.js and models/boat.js: the Boat resource                *)

\* format_response(boat, req): boat.data when the store had the entity, the
\* wrapper's own (missing) properties otherwise.
boat_format_response(id, data) ==
    IF data # <<>>
    THEN [id |-> id, name |-> data[1].name, type |-> data[1].type,
          length |-> data[1].length, loads |-> data[1].loads,
          owner |-> data[1].owner, self |-> <<"boats", id>>]
    ELSE [id |-> id, name |-> Undefined, type |-> Undefined,
          length |-> 0, loads |-> <<>>,
          owner |-> Undefined, self |-> <<"boats", id>>]

\* validate_request(req): "true", "false", or the TypeError of name.length
\* on a name that is not there.
boat_validate_request(httpVerb, body) ==
    IF httpVerb \in {"POST", "PUT"}
    THEN IF \/ Not(body.name) \/ Not(body.type) \/ body.length = 0
            \/ Not(body.owner) \/ Not(body.public)
         THEN "false"
         ELSE IF StrLen(body.name) > 25 THEN "false"
         ELSE IF ~ pattern_test(body.name) \/ ~ pattern_test(body.type)
         THEN "false"
         ELSE IF body.length > 1000 THEN "false"
         ELSE "true"
    ELSE IF ~ Not(body.id) THEN "false"
         ELSE IF /\ Not(body.name) /\ Not(body.type) /\ body.length = 0
                 /\ Not(body.owner) /\ Not(body.public)
         THEN "false"
         ELSE IF body.name \in {Undefined, Null} THEN "TypeError"
         ELSE IF StrLen(body.name) > 25 THEN "false"
         ELSE IF ~ pattern_test(body.name) \/ ~ pattern_test(body.type)
         THEN "false"
         ELSE IF body.length > 1000 THEN "false"
         ELSE "true"

\* post_boat(name, type, length, public, owner): the entity it saves.
post_boat(name, type, length, public, owner) ==
    [name |-> name, type |-> type, length |-> length, public |-> public,
     owner |-> owner, loads |-> <<>>]

\* put_boat(id, name, type, length, loads, public, owner): the entity it
\* saves (String(owner) of a string is that string).
put_boat(name, type, length, loads_, public, owner) ==
    [name |-> name, type |-> type, length |-> length, public |-> public,
     owner |-> owner, loads |-> loads_]

\* get_boat's test with `public` read as a truthy value ("false" is one).
get_boat_forbidden_unless_truthy(boat, userid) ==
    boat.owner # userid /\ Not(boat.public)

\* get_boat's test: the requester may not see this boat.
get_boat_forbidden(boat, userid) ==
    boat.owner # userid /\ boat.public # StrTrue

\* POST /boats, up to the call of post_boat.
boatController_create_boat(u, h, body) ==
    /\ issued < MaxRequests
    /\ issued' = issued + 1
    /\ LET key == AllocateId(issued + 1)
           r == [HttpRequest("create_boat", ToString(key), "1", u,
                             h[1], h[2], <<body>>) EXCEPT !.key = key]
       IN IF u = NoUser THEN RespondJson(r, r, 401, Error)
          ELSE IF ~ h[1] THEN RespondJson(r, r, 406, Error)
          ELSE IF h[2] # "application/json" THEN RespondJson(r, r, 415, Error)
          ELSE IF boat_validate_request("POST", body) # "true"
          THEN RespondJson(r, r, 400, Error)
          ELSE Continue(r, [r EXCEPT !.pc = "post_boat"])
    /\ UNCHANGED <<boats, loads, users, tasks, pages>>

\* ... the answer of post_boat's datastore.save.
boatController_create_boat_post(r) ==
    /\ r.op = "create_boat" /\ r.pc = "post_boat"
    /\ LET body == r.body[1]
       IN boats' = datastore_save(boats, r.key,
                      post_boat(body.name, body.type, body.length,
                                body.public, body.owner))
    /\ Continue(r, [r EXCEPT !.pc = "get_boat"])
    /\ pages' = {}
    /\ UNCHANGED <<loads, users, tasks, issued>>

\* ... the answer of get_boat(boatKey.id), and the response.
boatController_create_boat_get(r) ==
    /\ r.op = "create_boat" /\ r.pc = "get_boat"
    /\ LET boat == datastore_get(boats, r.key)
       IN RespondJson(r, [r EXCEPT !.boat = boat], 201,
                      boat_format_response(r.boat_id, boat))
    /\ UNCHANGED <<boats, loads, users, tasks, issued, pages>>

\* GET /boats/:boat_id
boatController_get_boat(b, u, h) ==
    /\ issued < MaxRequests
    /\ issued' = issued + 1
    /\ LET r == HttpRequest("get_boat", b, "1", u, h[1], h[2], <<>>)
           boat == datastore_get(boats, parseInt(b))
           now == [r EXCEPT !.boat = boat]
       IN IF ~ h[1] THEN RespondJson(r, r, 406, Error)
          ELSE IF h[2] # Undefined THEN RespondJson(r, r, 415, Error)
          ELSE IF u = NoUser THEN RespondJson(r, r, 401, Error)
          ELSE IF boat = <<>> THEN RespondJson(r, now, 404, Error)
          ELSE IF get_boat_forbidden(boat[1], u)
          THEN RespondJson(r, now, 401, Error)
          ELSE RespondJson(r, now, 200, boat_format_response(b, boat))
    /\ UNCHANGED <<boats, loads, users, tasks, pages>>

\* PUT /boats/:boat_id, up to the call of put_boat.
boatController_put_boat(b, u, h, body) ==
    /\ issued < MaxRequests
    /\ issued' = issued + 1
    /\ LET r == HttpRequest("put_boat", b, "1", u, h[1], h[2], <<body>>)
           boat == datastore_get(boats, parseInt(b))
           now == [r EXCEPT !.boat = boat]
       IN IF ~ h[1] THEN RespondJson(r, r, 406, Error)
          ELSE IF h[2] # "application/json" THEN RespondJson(r, r, 415, Error)
          ELSE IF boat_validate_request("PUT", body) # "true"
          THEN RespondJson(r, r, 400, Error)
          ELSE IF boat = <<>> THEN RespondJson(r, now, 404, Error)
          ELSE IF boat[1].owner # u THEN RespondJson(r, now, 401, Error)
          ELSE Continue(r, [now EXCEPT !.pc = "put_boat"])
    /\ UNCHANGED <<boats, loads, users, tasks, pages>>

\* ... the answer of put_boat's datastore.save, and the response.
boatController_put_boat_put(r) ==
    /\ r.op = "put_boat" /\ r.pc = "put_boat"
    /\ LET body == r.body[1]
       IN boats' = datastore_save(boats, parseInt(r.boat_id),
                      put_boat(body.name, body.type, body.length,
                               r.boat[1].loads, body.public, body.owner))
    /\ RespondJson(r, r, 303,
                   [self |-> boat_format_response(r.boat_id, r.boat).self])
    /\ pages' = {}
    /\ UNCHANGED <<loads, users, tasks, issued>>

\* patch_boat: a value that is not supplied is the one the boat has.
supplied(value, existing) == IF Not(value) THEN existing ELSE value

\* PATCH /boats/:boat_id, up to the call of put_boat.
boatController_patch_boat(b, u, h, body) ==
    /\ issued < MaxRequests
    /\ issued' = issued + 1
    /\ LET r == HttpRequest("patch_boat", b, "1", u, h[1], h[2], <<body>>)
           valid == boat_validate_request("PATCH", body)
           boat == datastore_get(boats, parseInt(b))
           now == [r EXCEPT !.boat = boat]
       IN IF ~ h[1] THEN RespondJson(r, r, 406, Error)
          ELSE IF h[2] # "application/json" THEN RespondJson(r, r, 415, Error)
          ELSE IF valid = "TypeError" THEN Reject(r, r)
          ELSE IF valid # "true" THEN RespondJson(r, r, 400, Error)
          ELSE IF boat = <<>> THEN RespondJson(r, now, 404, Error)
          ELSE IF boat[1].owner # u THEN RespondJson(r, now, 401, Error)
          ELSE Continue(r, [now EXCEPT !.pc = "put_boat"])
    /\ UNCHANGED <<boats, loads, users, tasks, pages>>

\* ... the answer of put_boat's datastore.save.
boatController_patch_boat_put(r) ==
    /\ r.op = "patch_boat" /\ r.pc = "put_boat"
    /\ LET body == r.body[1]
           boat == r.boat[1]
       IN boats' = datastore_save(boats, parseInt(r.boat_id),
                      put_boat(supplied(body.name, boat.name),
                               supplied(body.type, boat.type),
                               IF body.length = 0 THEN boat.length
                                                  ELSE body.length,
                               boat.loads,
                               supplied(body.public, boat.public),
                               supplied(body.owner, boat.owner)))
    /\ Continue(r, [r EXCEPT !.pc = "get_boat"])
    /\ pages' = {}
    /\ UNCHANGED <<loads, users, tasks, issued>>

\* ... the answer of the second get_boat, and the response.
boatController_patch_boat_get(r) ==
    /\ r.op = "patch_boat" /\ r.pc = "get_boat"
    /\ LET editedBoat == datastore_get(boats, parseInt(r.boat_id))
       IN RespondJson(r, r, 200, boat_format_response(r.boat_id, editedBoat))
    /\ UNCHANGED <<boats, loads, users, tasks, issued, pages>>

----------------------------------------------------------------------------
(* controllers/load.js and models/load.js: the Load resource                *)

\* format_response(load, req): it reads load.data.current_load, a property
\* no Load has, and JSON leaves an undefined property out.
load_format_response(id, data) ==
    [id |-> id, weight |-> data.weight, content |-> data.content,
     delivery_date |-> data.delivery_date,
     current_load |-> IF "current_load" \in DOMAIN data
                      THEN data.current_load ELSE Undefined,
     self |-> <<"loads", id>>]

\* validate_request(req) of controllers/load.js (pattern.test(weight) tests
\* the decimal digits of a number, and holds).
load_validate_request(httpVerb, body) ==
    IF httpVerb \in {"POST", "PUT"}
    THEN IF \/ body.weight = 0 \/ Not(body.content)
            \/ Not(body.delivery_date) \/ Not(body.current_boat)
         THEN FALSE
         ELSE IF ~ pattern_test(body.content) THEN FALSE
         ELSE IF exceeds_1000(body.content) THEN FALSE
         ELSE TRUE
    ELSE IF ~ Not(body.id) THEN FALSE
         ELSE IF /\ body.weight = 0 /\ Not(body.content)
                 /\ Not(body.delivery_date) /\ Not(body.current_boat)
         THEN FALSE
         ELSE IF ~ pattern_test(body.content) THEN FALSE
         ELSE IF exceeds_1000(body.content) THEN FALSE
         ELSE TRUE

\* post_load(weight, content, delivery_date): the entity it saves.
post_load(weight, content, delivery_date) ==
    [weight |-> weight, content |-> content,
     delivery_date |-> delivery_date, current_boat |-> Null]

\* put_load(id, weight, content, delivery_date, boat_id): its first
\* statement reads `load`, the const declared by its second statement, and
\* throws a ReferenceError; otherwise the entity it would save.
put_load(weight, content, delivery_date, boat_id) ==
    [threw |-> "ReferenceError",
     load |-> [weight |-> weight, content |-> content,
               delivery_date |-> delivery_date, current_boat |-> boat_id]]

\* POST /loads, up to the call of post_load.
loadController_create_load(body) ==
    /\ issued < MaxRequests
    /\ issued' = issued + 1
    /\ LET key == AllocateId(issued + 1)
           r == [HttpRequest("create_load", "1", ToString(key), NoUser,
                             TRUE, "application/json", <<body>>)
                   EXCEPT !.key = key]
       IN IF body.weight = 0 \/ Not(body.content) \/ Not(body.delivery_date)
          THEN RespondJson(r, r, 400, Error)
          ELSE Continue(r, [r EXCEPT !.pc = "post_load"])
    /\ UNCHANGED <<boats, loads, users, tasks, pages>>

\* ... the answer of post_load's datastore.save.
loadController_create_load_post(r) ==
    /\ r.op = "create_load" /\ r.pc = "post_load"
    /\ LET body == r.body[1]
       IN loads' = datastore_save(loads, r.key,
                      post_load(body.weight, body.content,
                                body.delivery_date))
    /\ Continue(r, [r EXCEPT !.pc = "get_load"])
    /\ pages' = {}
    /\ UNCHANGED <<boats, users, tasks, issued>>

\* ... the answer of get_load(loadKey.id), and the response (for a load the
\* store no longer has, format_response reads the wrapper's own properties,
\* which are undefined but for id).
loadController_create_load_get(r) ==
    /\ r.op = "create_load" /\ r.pc = "get_load"
    /\ LET load == datastore_get(loads, r.key)
           now == [r EXCEPT !.load = load]
       IN IF load # <<>>
          THEN RespondJson(r, now, 201, load_format_response(r.load_id, load[1]))
          ELSE RespondJson(r, now, 201,
                           [id |-> r.load_id, self |-> <<"loads", r.load_id>>])
    /\ UNCHANGED <<boats, loads, users, tasks, issued, pages>>

\* GET /loads/:load_id
loadController_get_load(l) ==
    /\ issued < MaxRequests
    /\ issued' = issued + 1
    /\ LET r == Request("get_load", "1", l, NoUser)
           load == datastore_get(loads, parseInt(l))
           now == [r EXCEPT !.load = load]
       IN IF load # <<>>
          THEN RespondJson(r, now, 200, load_format_response(l, load[1]))
          ELSE RespondJson(r, now, 404, Error)
    /\ UNCHANGED <<boats, loads, users, tasks, pages>>

\* PUT /loads/:load_id
loadController_put_load(l, h, body) ==
    /\ issued < MaxRequests
    /\ issued' = issued + 1
    /\ LET r == HttpRequest("put_load", "1", l, NoUser, h[1], h[2], <<body>>)
           load == datastore_get(loads, parseInt(l))
           now == [r EXCEPT !.load = load]
           loadKey == put_load(body.weight, body.content, body.delivery_date,
                               body.current_boat)
       IN IF ~ h[1]
          THEN RespondJson(r, r, 406, Error) /\ loads' = loads
          ELSE IF h[2] # "application/json"
          THEN RespondJson(r, r, 415, Error) /\ loads' = loads
          ELSE IF ~ load_validate_request("PUT", body)
          THEN RespondJson(r, r, 400, Error) /\ loads' = loads
          ELSE IF load = <<>>
          THEN RespondJson(r, now, 404, Error) /\ loads' = loads
          ELSE IF loadKey.threw # "nothing"
          THEN Reject(r, now) /\ loads' = loads
          ELSE /\ loads' = datastore_save(loads, parseInt(l), loadKey.load)
               /\ RespondJson(r, now, 303,
                              [self |-> <<"loads", ToString(parseInt(l))>>])
    /\ pages' = IF loads' = loads THEN pages ELSE {}
    /\ UNCHANGED <<boats, users, tasks>>

\* PATCH /loads/:load_id.  For an existing load the handler calls
\* loadModel.put_load(req.params.load_id, name, type, length, public, owner):
\* `name` is declared nowhere in controllers/load.js, so evaluating the
\* arguments throws a ReferenceError and the handler's promise rejects.
loadController_patch_load(l, h, body) ==
    /\ issued < MaxRequests
    /\ issued' = issued + 1
    /\ LET r == HttpRequest("patch_load", "1", l, NoUser, h[1], h[2], <<body>>)
           load == datastore_get(loads, parseInt(l))
           now == [r EXCEPT !.load = load]
       IN IF ~ h[1] THEN RespondJson(r, r, 406, Error)
          ELSE IF h[2] # "application/json" THEN RespondJson(r, r, 415, Error)
          ELSE IF ~ load_validate_request("PATCH", body)
          THEN RespondJson(r, r, 400, Error)
          ELSE IF load = <<>> THEN RespondJson(r, now, 404, Error)
          ELSE Reject(r, now)
    /\ UNCHANGED <<boats, loads, users, tasks, pages>>

----------------------------------------------------------------------------
(* The collections: GET /loads and GET /boats                               *)

\* url.parse(req.url, true).query of the collection requests.
Queries ==
    { [limit |-> "5", offset |-> "0"],
      [limit |-> "5", offset |-> "5"],
      [limit |-> "10", offset |-> "0"] }

\* The page object a collection handler returns; next is built from
\* queryObject.limit + queryObject.offset, two strings.
Page(collection, ids, query) ==
    [collection |-> collection, ids |-> ids,
     offset |-> query.offset, limit |-> query.limit, count |-> 5,
     next |-> <<collection, "?limit=5&offset=", query.limit, query.offset>>]

\* models/load.js get_all_loads(limit, offset)
get_all_loads(limit, offset) == runQuery(DOMAIN loads, limit, offset)

\* models/boat.js get_all_users_boats(userid, limit, offset)
get_all_users_boats(userid, limit, offset) ==
    runQuery({k \in DOMAIN boats : boats[k].owner = userid}, limit, offset)

\* models/boat.js get_all_public_boats(limit, offset)
get_all_public_boats(limit, offset) ==
    runQuery({k \in DOMAIN boats : boats[k].public = JsTrue}, limit, offset)

\* GET /loads?limit=..&offset=..
loadController_get_all_loads(query) ==
    /\ issued < MaxListRequests
    /\ issued' = issued + 1
    /\ LET r == HttpRequest("get_all_loads", "1", "1", NoUser, TRUE,
                            Undefined, <<query>>)
           page == Page("loads", get_all_loads(query.limit, query.offset),
                        query)
       IN /\ RespondJson(r, r, 200, page)
          /\ pages' = pages \cup {[owner |-> NoUser, page |-> page]}
    /\ UNCHANGED <<boats, loads, users, tasks>>

\* GET /boats?limit=..&offset=..: the boats of the token's subject, or the
\* public boats when there is no valid token.
boatController_get_all_boats(u, accepts, query) ==
    /\ issued < MaxListRequests
    /\ issued' = issued + 1
    /\ LET r == HttpRequest("get_all_boats", "1", "1", u, accepts,
                            Undefined, <<query>>)
           ids == IF u # NoUser
                  THEN get_all_users_boats(u, query.limit, query.offset)
                  ELSE get_all_public_boats(query.limit, query.offset)
           page == Page("boats", ids, query)
       IN IF ~ accepts
          THEN RespondJson(r, r, 406, Error) /\ pages' = pages
          ELSE /\ RespondJson(r, r, 200, page)
               /\ pages' = pages \cup {[owner |-> u, page |-> page]}
    /\ UNCHANGED <<boats, loads, users, tasks>>

----------------------------------------------------------------------------
(* controllers/user.js and models/user.js                                   *)

\* GET or POST /oauth.  stateMatches: req.query.state is the session's
\* secret; sub: the subject of the id token Google returns for the code, or
\* "error" when the token exchange or the verification throws.  post_user is
\* called and not awaited.
userController_oauth(stateMatches, sub) ==
    /\ issued < MaxRequests
    /\ issued' = issued + 1
    /\ LET r == [Request("oauth", "1", "1", sub)
                   EXCEPT !.key = AllocateId(issued + 1)]
       IN IF ~ stateMatches
          THEN RespondJson(r, r, 401, Error) /\ tasks' = tasks
          ELSE IF sub = "error"
          THEN Swallow(r, r) /\ tasks' = tasks
          ELSE /\ tasks' = tasks (+)
                     One([fn |-> "post_user", user_id |-> sub, key |-> r.key])
               /\ RespondJson(r, r, 200, [user_id |-> sub])
    /\ UNCHANGED <<boats, loads, users, pages>>

\* post_user(user_id), the answer of get_all_users: the users with this
\* uuid; with none of them, the save is issued.
userModel_post_user(t) ==
    /\ t.fn = "post_user"
    /\ LET duplicates == {k \in DOMAIN users : users[k].uuid = t.user_id}
       IN tasks' = (tasks (-) One(t)) (+)
                   (IF Cardinality(duplicates) > 0
                    THEN EmptyBag
                    ELSE One([fn |-> "save_user", key |-> t.key,
                              user |-> [uuid |-> t.user_id]]))
    /\ UNCHANGED <<boats, loads, users, reqs, issued, last, pages>>

\* await datastore.save({ key: key, data: new_user })
datastore_save_user(t) ==
    /\ t.fn = "save_user"
    /\ users' = datastore_save(users, t.key, t.user)
    /\ tasks' = tasks (-) One(t)
    /\ UNCHANGED <<boats, loads, reqs, issued, last, pages>>

----------------------------------------------------------------------------
(* Specifications                                                           *)

\* A request arrives.
Arrive ==
    \/ \E b \in BoatParams, l \in LoadParams : boatController_load_boat(b, l)
    \/ \E b \in BoatParams, l \in LoadParams : boatController_unload_boat(b, l)
    \/ \E b \in BoatParams, u \in Subjects \cup {NoUser}, c \in BOOLEAN :
          boatController_delete_boat(b, u, c)
    \/ \E l \in LoadParams : loadController_delete_load(l)

\* A store call of a handler or of a promise chain completes.
Progress ==
    \/ \E r \in BagToSet(reqs) : boatController_load_boat_load(r)
    \/ \E r \in BagToSet(reqs) : boatController_unload_boat_load(r)
    \/ \E r \in BagToSet(reqs) : boatController_delete_boat_delete(r)
    \/ \E r \in BagToSet(reqs) : loadController_delete_load_delete(r)
    \/ \E t \in BagToSet(tasks) : loadModel_add_load_to_boat(t)
    \/ \E t \in BagToSet(tasks) : loadModel_remove_load_from_boat(t)
    \/ \E t \in BagToSet(tasks) : datastore_save_load(t)
    \/ \E t \in BagToSet(tasks) : boatModel_load_boat(t)
    \/ \E t \in BagToSet(tasks) : boatModel_unload_boat(t)
    \/ \E t \in BagToSet(tasks) : boatModel_delete_boat(t)
    \/ \E t \in BagToSet(tasks) : datastore_save_boat(t)

\* No handler is running and no store call is outstanding.
Quiescent == reqs = EmptyBag /\ tasks = EmptyBag

\* Any number of clients: requests arrive at any time.
Next == Arrive \/ Progress
Spec == Init /\ [][Next]_vars

\* One client that sends a request once the previous one was answered.
NextSerial == (reqs = EmptyBag /\ Arrive) \/ Progress
SpecSerial == Init /\ [][NextSerial]_vars

\* One client that sends a request once every write of the previous ones
\* has reached the store.
NextQuiescent == (Quiescent /\ Arrive) \/ Progress
SpecQuiescent == Init /\ [][NextQuiescent]_vars

\* The Boat resource: one client that sends a request to /boats once the
\* previous one was answered; boat 1 is public (either spelling) or not.
InitBoats ==
    /\ \E public \in {JsTrue, StrTrue, StrFalse}, onBoat \in BOOLEAN :
          Store(public, onBoat)
    /\ Idle

ArriveBoats ==
    \/ \E u \in Subjects \cup {NoUser}, h \in Headers, body \in BoatBodies :
          boatController_create_boat(u, h, body)
    \/ \E b \in BoatParams, u \in Subjects \cup {NoUser}, h \in Headers :
          boatController_get_boat(b, u, h)
    \/ \E b \in BoatParams, u \in Subjects \cup {NoUser}, h \in Headers,
          body \in BoatBodies : boatController_put_boat(b, u, h, body)
    \/ \E b \in BoatParams, u \in Subjects \cup {NoUser}, h \in Headers,
          body \in BoatBodies : boatController_patch_boat(b, u, h, body)
    \/ \E b \in BoatParams, u \in Subjects \cup {NoUser}, c \in BOOLEAN :
          boatController_delete_boat(b, u, c)

ProgressBoats ==
    \/ \E r \in BagToSet(reqs) : boatController_create_boat_post(r)
    \/ \E r \in BagToSet(reqs) : boatController_create_boat_get(r)
    \/ \E r \in BagToSet(reqs) : boatController_put_boat_put(r)
    \/ \E r \in BagToSet(reqs) : boatController_patch_boat_put(r)
    \/ \E r \in BagToSet(reqs) : boatController_patch_boat_get(r)
    \/ \E r \in BagToSet(reqs) : boatController_delete_boat_delete(r)
    \/ \E t \in BagToSet(tasks) : boatModel_delete_boat(t)
    \/ \E t \in BagToSet(tasks) : loadModel_remove_load_from_boat(t)
    \/ \E t \in BagToSet(tasks) : datastore_save_load(t)

NextBoats ==
    \/ reqs = EmptyBag /\ issued < MaxBoatRequests /\ ArriveBoats
    \/ ProgressBoats
SpecBoats == InitBoats /\ [][NextBoats]_vars

\* Sign-in: any number of browsers come back from Google at any time.
ArriveUsers ==
    \E stateMatches \in BOOLEAN, sub \in Subjects \cup {"error"} :
        userController_oauth(stateMatches, sub)

ProgressUsers ==
    \/ \E t \in BagToSet(tasks) : userModel_post_user(t)
    \/ \E t \in BagToSet(tasks) : datastore_save_user(t)

NextUsers == ArriveUsers \/ ProgressUsers
SpecUsers == Init /\ [][NextUsers]_vars

\* The Load resource: one client that sends a request to /loads once the
\* previous one was answered.
ArriveLoads ==
    \/ \E body \in LoadBodies : loadController_create_load(body)
    \/ \E l \in LoadParams : loadController_get_load(l)
    \/ \E l \in LoadParams, h \in Headers, body \in LoadBodies :
          loadController_put_load(l, h, body)
    \/ \E l \in LoadParams, h \in Headers, body \in LoadBodies :
          loadController_patch_load(l, h, body)
    \/ \E l \in LoadParams : loadController_delete_load(l)

ProgressLoads ==
    \/ \E r \in BagToSet(reqs) : loadController_create_load_post(r)
    \/ \E r \in BagToSet(reqs) : loadController_create_load_get(r)
    \/ \E r \in BagToSet(reqs) : loadController_delete_load_delete(r)
    \/ \E t \in BagToSet(tasks) : loadModel_remove_load_from_boat(t)
    \/ \E t \in BagToSet(tasks) : datastore_save_load(t)
    \/ \E t \in BagToSet(tasks) : boatModel_unload_boat(t)
    \/ \E t \in BagToSet(tasks) : datastore_save_boat(t)

NextLoads == (reqs = EmptyBag /\ ArriveLoads) \/ ProgressLoads
SpecLoads == Init /\ [][NextLoads]_vars

\* The collections: each kind holds the keys 1..n but possibly one (as a
\* delete leaves them); boat 6 is u2's and not public, the others are u1's.
InitPages ==
    /\ \E n \in 0..MaxEntities, gone \in 0..MaxEntities :
          LET keys == (1..n) \ {gone}
          IN /\ boats = [k \in keys |->
                           [name |-> "Orca", type |-> "Sloop", length |-> 40,
                            loads |-> <<>>,
                            public |-> IF k = 6 THEN StrFalse ELSE JsTrue,
                            owner |-> IF k = 6 THEN "u2" ELSE "u1"]]
             /\ loads = [k \in keys |->
                           [weight |-> 100, content |-> "crates",
                            delivery_date |-> "2024-01-01",
                            current_boat |-> Null]]
    /\ users = <<>>
    /\ Idle

NextPages ==
    \/ \E query \in Queries : loadController_get_all_loads(query)
    \/ \E u \in {"u1", NoUser}, accepts \in BOOLEAN, query \in Queries :
          boatController_get_all_boats(u, accepts, query)

SpecPages == InitPages /\ [][NextPages]_vars

\* Assigns only: any number of clients assign loads to boats at any time,
\* starting from a store in which no load is on a boat.
InitAssign == Store(JsTrue, FALSE) /\ Idle

ArriveAssign ==
    \E b \in BoatParams, l \in LoadParams : boatController_load_boat(b, l)

ProgressAssign ==
    \/ \E r \in BagToSet(reqs) : boatController_load_boat_load(r)
    \/ \E t \in BagToSet(tasks) : loadModel_add_load_to_boat(t)
    \/ \E t \in BagToSet(tasks) : datastore_save_load(t)
    \/ \E t \in BagToSet(tasks) : boatModel_load_boat(t)
    \/ \E t \in BagToSet(tasks) : datastore_save_boat(t)

NextAssign == ArriveAssign \/ ProgressAssign
SpecAssign == InitAssign /\ [][NextAssign]_vars

\* Writers of one Boat: owners who PUT and PATCH their boats (requests that
\* pass content negotiation) while other clients assign and unassign loads,
\* all at any time.
ArriveWrites ==
    \/ \E b \in BoatParams, u \in Subjects, body \in BoatBodies :
          boatController_put_boat(b, u, <<TRUE, "application/json">>, body)
    \/ \E b \in BoatParams, u \in Subjects, body \in BoatBodies :
          boatController_patch_boat(b, u, <<TRUE, "application/json">>, body)
    \/ \E b \in BoatParams, l \in LoadParams : boatController_load_boat(b, l)
    \/ \E b \in BoatParams, l \in LoadParams : boatController_unload_boat(b, l)

ProgressWrites ==
    \/ \E r \in BagToSet(reqs) : boatController_put_boat_put(r)
    \/ \E r \in BagToSet(reqs) : boatController_patch_boat_put(r)
    \/ \E r \in BagToSet(reqs) : boatController_patch_boat_get(r)
    \/ \E r \in BagToSet(reqs) : boatController_load_boat_load(r)
    \/ \E r \in BagToSet(reqs) : boatController_unload_boat_load(r)
    \/ \E t \in BagToSet(tasks) : loadModel_add_load_to_boat(t)
    \/ \E t \in BagToSet(tasks) : loadModel_remove_load_from_boat(t)
    \/ \E t \in BagToSet(tasks) : datastore_save_load(t)
    \/ \E t \in BagToSet(tasks) : boatModel_load_boat(t)
    \/ \E t \in BagToSet(tasks) : boatModel_unload_boat(t)
    \/ \E t \in BagToSet(tasks) : datastore_save_boat(t)

NextWrites == ArriveWrites \/ ProgressWrites
SpecWrites == Init /\ [][NextWrites]_vars

\* The relationship alone: one client that assigns and unassigns, sending a
\* request once every write of the previous ones has reached the store; it
\* may spell a load id with a leading zero.
LoadSpellings == LoadParams \cup {"01"}

ArriveRelate ==
    \/ \E b \in BoatParams, l \in LoadSpellings : boatController_load_boat(b, l)
    \/ \E b \in BoatParams, l \in LoadSpellings :
          boatController_unload_boat(b, l)

ProgressRelate ==
    \/ \E r \in BagToSet(reqs) : boatController_load_boat_load(r)
    \/ \E r \in BagToSet(reqs) : boatController_unload_boat_load(r)
    \/ \E t \in BagToSet(tasks) : loadModel_add_load_to_boat(t)
    \/ \E t \in BagToSet(tasks) : loadModel_remove_load_from_boat(t)
    \/ \E t \in BagToSet(tasks) : datastore_save_load(t)
    \/ \E t \in BagToSet(tasks) : boatModel_load_boat(t)
    \/ \E t \in BagToSet(tasks) : boatModel_unload_boat(t)
    \/ \E t \in BagToSet(tasks) : datastore_save_boat(t)

NextRelate == (Quiescent /\ ArriveRelate) \/ ProgressRelate
SpecRelate == Init /\ [][NextRelate]_vars

\* An unreliable store: one client that assigns loads and deletes boats,
\* sending a request once the previous one has settled, while any store call
\* of a promise chain may reject.
Settled ==
    /\ reqs = EmptyBag
    /\ \A t \in BagToSet(tasks) : t.fn = "rejected"

ArriveFaulty ==
    \/ \E b \in BoatParams, l \in LoadParams : boatController_load_boat(b, l)
    \/ \E b \in BoatParams, u \in Subjects \cup {NoUser}, c \in BOOLEAN :
          boatController_delete_boat(b, u, c)

ProgressFaulty ==
    \/ \E r \in BagToSet(reqs) : boatController_load_boat_load(r)
    \/ \E r \in BagToSet(reqs) : boatController_delete_boat_delete(r)
    \/ \E t \in BagToSet(tasks) : loadModel_add_load_to_boat(t)
    \/ \E t \in BagToSet(tasks) : loadModel_remove_load_from_boat(t)
    \/ \E t \in BagToSet(tasks) : datastore_save_load(t)
    \/ \E t \in BagToSet(tasks) : boatModel_load_boat(t)
    \/ \E t \in BagToSet(tasks) : boatModel_delete_boat(t)
    \/ \E t \in BagToSet(tasks) : datastore_save_boat(t)
    \/ \E t \in BagToSet(tasks) : datastore_rejects(t)

NextFaulty == (Settled /\ ArriveFaulty) \/ ProgressFaulty
SpecFaulty == Init /\ [][NextFaulty]_vars

----------------------------------------------------------------------------
(* Vocabulary of the properties                                             *)

\* Boat key k lists load key j.
Lists(k, j) ==
    /\ k \in DOMAIN boats
    /\ \E i \in 1..Len(boats[k].loads) : parseInt(boats[k].loads[i].id) = j

\* Load key j is Assigned to boat key k.
AssignedTo(j, k) ==
    /\ j \in DOMAIN loads
    /\ loads[j].current_boat # Null
    /\ parseInt(loads[j].current_boat) = k

\* A load record that is Assigned to the boat the id string b names.
OnBoat(load, b) ==
    load.current_boat # Null /\ parseInt(load.current_boat) = parseInt(b)

\* The boat and the load that the handler which answered last had read are
\* what the store holds now.
LastLeftUnchanged ==
    /\ datastore_get(boats, parseInt(last.boat_id)) = last.boat
    /\ datastore_get(loads, parseInt(last.load_id)) = last.load

\* This step sends a response (it is then last').
Responds ==
    \/ BagCardinality(reqs') < BagCardinality(reqs)
    \/ issued' = issued + 1 /\ reqs' = reqs

\* The request that arrives in this step (answered in it, or still running).
Arriving ==
    IF reqs' = reqs THEN last'
    ELSE CHOOSE r \in BagToSet(reqs') : CopiesIn(r, reqs') > CopiesIn(r, reqs)

\* A request arrives in this step.
Arrives == issued' = issued + 1

\* The boat the arriving request names, as the store holds it on arrival.
ArrivingBoat == datastore_get(boats, parseInt(Arriving.boat_id))

\* A boat is public (the source stores what the body gave: the boolean true
\* or the string "true").
IsPublic(boat) == boat.public \in {JsTrue, StrTrue}

\* Request r passes content negotiation: it accepts JSON and sends the
\* Content-Type its verb requires (none for GET and DELETE).
Negotiated(r) ==
    /\ r.accepts
    /\ r.contentType = (IF r.op \in {"get_boat", "delete_boat"}
                        THEN Undefined ELSE "application/json")

\* A body that gives a valid value to every field it supplies, supplies a
\* field, and for PUT supplies them all.
WellFormedBoat(op, body) ==
    /\ Not(body.id)
    /\ body.name # Undefined =>
          StrLen(body.name) <= 25 /\ pattern_test(body.name)
    /\ body.length <= 1000
    /\ body.public # JsFalse
    /\ \/ body.name # Undefined \/ body.type # Undefined \/ body.length # 0
       \/ body.public # Undefined \/ body.owner # Undefined
    /\ op = "put_boat" =>
          /\ body.name # Undefined /\ body.type # Undefined
          /\ body.length # 0
          /\ body.public # Undefined /\ body.owner # Undefined

\* The current_boat a Load representation shows (a property that is left
\* out reads as null).
ShownCurrentBoat(json) ==
    IF "current_boat" \in DOMAIN json /\ json.current_boat # Undefined
    THEN json.current_boat ELSE Null

\* A Load body that supplies every field with a valid value.
WellFormedLoad(body) ==
    /\ body.weight # 0
    /\ body.content \notin {Undefined, "nuts & bolts", "2000"}
    /\ body.delivery_date # Undefined
    /\ body.current_boat # Undefined

----------------------------------------------------------------------------
(* Properties                                                               *)

\* C1: once every write of the requests made so far has reached the store,
\* every load id L in the loads list of every Boat B names a Load whose
\* current_boat is B's id.
C1_ListedLoadsPointBack ==
    Quiescent =>
        \A k \in DOMAIN boats : \A i \in 1..Len(boats[k].loads) :
            AssignedTo(parseInt(boats[k].loads[i].id), k)

\* C2: each Load's current_boat is null or the id of an existing Boat whose
\* loads list contains the Load's id (stated for the states in which no
\* request is running and no write is outstanding, which the claim includes).
C2_CurrentBoatListsLoad ==
    Quiescent =>
        \A j \in DOMAIN loads :
            \/ loads[j].current_boat = Null
            \/ Lists(parseInt(loads[j].current_boat), j)

\* C3: no load id is in the loads lists of two distinct Boats (stated for
\* the states in which no request is running and no write is outstanding).
C3_LoadOnOneBoat ==
    Quiescent =>
        \A k1 \in DOMAIN boats, k2 \in DOMAIN boats, j \in LoadKeys :
            Lists(k1, j) /\ Lists(k2, j) => k1 = k2

\* C4: a Boat's loads list holds no two entries with the same load id
\* (stated for the states in which no request is running and no write is
\* outstanding).
C4_NoDuplicateLoadIds ==
    Quiescent =>
        \A k \in DOMAIN boats :
            \A i \in 1..Len(boats[k].loads), j \in 1..Len(boats[k].loads) :
                boats[k].loads[i].id = boats[k].loads[j].id => i = j

\* C5: an assign request that found the Load's current_boat non-null leaves
\* the Boat's loads list and the Load's current_boat as it found them (the
\* request came when nothing else was running, and nothing came after it).
C5_AssignOnlyFromUnassigned ==
    ( /\ reqs = EmptyBag
      /\ last.op = "load_boat"
      /\ last.load # <<>>
      /\ last.load[1].current_boat # Null )
    => LastLeftUnchanged

\* C6: an assign of a Load to the Boat it is already Assigned to is answered
\* 403 and leaves the Boat's loads list and the Load's current_boat as they
\* were.
C6_SameBoatAssignConflicts ==
    ( /\ reqs = EmptyBag
      /\ last.op = "load_boat"
      /\ last.load # <<>>
      /\ OnBoat(last.load[1], last.boat_id) )
    => last.status = 403 /\ LastLeftUnchanged

\* C7: once an assign of an Unassigned Load l to an existing Boat b, made
\* with no other request in flight, has been answered 204, the store shows l
\* in b.loads and current_boat = b on l.
C7_AssignAppliedBeforeResponse ==
    ( /\ reqs = EmptyBag
      /\ last.op = "load_boat"
      /\ last.status = 204
      /\ last.load[1].current_boat = Null )
    => /\ Lists(parseInt(last.boat_id), parseInt(last.load_id))
       /\ AssignedTo(parseInt(last.load_id), parseInt(last.boat_id))

\* C8: an unassign(b, l) that is answered while Load l is Unassigned or
\* Assigned to another boat is answered 404, writes nothing and starts no
\* write.
C8_UnassignOnlyFromAssigned ==
    [][ ( /\ Responds
          /\ last'.op = "unload_boat"
          /\ parseInt(last'.load_id) \in DOMAIN loads
          /\ ~ OnBoat(loads[parseInt(last'.load_id)], last'.boat_id) )
        => /\ last'.status = 404
           /\ UNCHANGED <<boats, loads, tasks>> ]_vars

\* C8, witness: an unassign was answered 404 for a Load on another boat.
C8_Witness ==
    /\ last.op = "unload_boat"
    /\ last.status = 404
    /\ last.load # <<>>
    /\ last.load[1].current_boat # Null
    /\ ~ OnBoat(last.load[1], last.boat_id)

\* C9: an unassign(B, L) sent after the same unassign(B, L) was answered 204
\* (and nothing in between) is answered 404.
C9_SecondUnassignNotFound ==
    (last.op = "unload_boat" /\ last.repeat) => last.status = 404

\* C10: a DELETE of Boat b by its owner while loads are on b is answered 204
\* and, once every write it started has reached the store, every Load that
\* was in b.loads has current_boat = null.
C10_DeleteBoatUnassignsLoads ==
    ( /\ Quiescent
      /\ last.op = "delete_boat"
      /\ last.boat # <<>>
      /\ last.boat[1].owner = last.userid
      /\ Len(last.boat[1].loads) > 0 )
    => /\ last.status = 204
       /\ \A i \in 1..Len(last.boat[1].loads) :
             LET j == parseInt(last.boat[1].loads[i].id)
             IN j \in DOMAIN loads => loads[j].current_boat = Null

\* C11: once the DELETE of a Load that had a boat B has been answered 204 and
\* the Load record is gone, B's loads list no longer holds the Load's id (the
\* entry is removed before the record is).
C11_LoadUnlistedBeforeDeleted ==
    ( /\ last.op = "delete_load"
      /\ last.status = 204
      /\ last.load # <<>>
      /\ last.load[1].current_boat # Null
      /\ parseInt(last.load_id) \notin DOMAIN loads )
    => ~ Lists(parseInt(last.load[1].current_boat), parseInt(last.load_id))

\* C12: a create_boat that was answered 201 stored a Boat whose name no other
\* stored Boat has (a create with a name in use is refused with 403 and
\* stores nothing, so no two stored Boats share a name).
C12_CreatedNameIsUnique ==
    (last.op = "create_boat" /\ last.status = 201)
    => \A k \in DOMAIN boats \ {last.key} :
          boats[k].name # last.body[1].name

\* C14 as stated: a GET of an existing Boat that is not public, by an
\* authenticated subject who is not its owner, is answered 401 with no Boat
\* data.
C14_PrivateBoatHidden_AnyHeaders ==
    [][ ( /\ Arrives
          /\ Arriving.op = "get_boat"
          /\ Arriving.userid \in Subjects
          /\ ArrivingBoat # <<>>
          /\ ~ IsPublic(ArrivingBoat[1])
          /\ ArrivingBoat[1].owner # Arriving.userid )
        => /\ reqs' = reqs
           /\ last'.status = 401
           /\ last'.json = <<Error>> ]_vars

\* C14, amended: such a GET is answered 401, or 406 or 415 when it fails
\* content negotiation (no JSON accepted, or a Content-Type sent), and in
\* each case with an error body and no Boat data.
C14_PrivateBoatHidden ==
    [][ ( /\ Arrives
          /\ Arriving.op = "get_boat"
          /\ Arriving.userid \in Subjects
          /\ ArrivingBoat # <<>>
          /\ ~ IsPublic(ArrivingBoat[1])
          /\ ArrivingBoat[1].owner # Arriving.userid )
        => /\ reqs' = reqs
           /\ last'.status = (IF ~ last'.accepts THEN 406
                              ELSE IF last'.contentType # Undefined THEN 415
                              ELSE 401)
           /\ last'.json = <<Error>> ]_vars

\* C14, witness: a negotiated GET of a private boat by an authenticated
\* subject who is not its owner was answered 401.
C14_Witness ==
    /\ last.op = "get_boat"
    /\ last.status = 401
    /\ last.userid \in Subjects
    /\ last.boat # <<>>
    /\ ~ IsPublic(last.boat[1])
    /\ last.boat[1].owner # last.userid

\* C15: a GET (that passes content negotiation) of an existing Boat whose
\* public flag is true is answered 200 with the Boat, whoever asks: the
\* owner, another authenticated subject, or a requester with no token.
C15_PublicBoatVisibleToAll ==
    [][ ( /\ Arrives
          /\ Arriving.op = "get_boat"
          /\ Negotiated(Arriving)
          /\ ArrivingBoat # <<>>
          /\ IsPublic(ArrivingBoat[1]) )
        => /\ reqs' = reqs
           /\ last'.status = 200
           /\ last'.json =
                 <<boat_format_response(last'.boat_id, ArrivingBoat)>> ]_vars

\* C16: a PUT, PATCH or DELETE (well-formed and past content negotiation) of
\* an existing Boat by a requester who is not its owner, a requester with no
\* token included, is answered 401 and writes nothing.
C16_NonOwnerWriteRefused ==
    [][ ( /\ Arrives
          /\ Arriving.op \in {"put_boat", "patch_boat", "delete_boat"}
          /\ Negotiated(Arriving)
          /\ Arriving.body # <<>> =>
                WellFormedBoat(Arriving.op, Arriving.body[1])
          /\ ArrivingBoat # <<>>
          /\ ArrivingBoat[1].owner # Arriving.userid )
        => /\ reqs' = reqs
           /\ last'.status = 401
           /\ UNCHANGED <<boats, loads, tasks>> ]_vars

\* C13: no two User records have the same uuid, two sign-ins of one subject
\* running post_user at the same time included.
C13_UuidUnique ==
    \A k1 \in DOMAIN users, k2 \in DOMAIN users :
        users[k1].uuid = users[k2].uuid => k1 = k2

\* C17: a request whose handling ran into an error (thrown in the handler or
\* in a model function, or returned by the store) has been answered with an
\* error status and a body {Error: message}.
C17_ErrorsBecomeResponses ==
    last.pc \in {"rejected", "logged"}
    => last.status >= 400 /\ last.json = <<Error>>

\* C18: the representation returned for a Load, on create (201) and on GET
\* (200), shows the current_boat the store holds for it: null for an
\* Unassigned load, the boat's id for an Assigned one.
C18_LoadShowsCurrentBoat ==
    ( /\ last.op \in {"create_load", "get_load"}
      /\ last.status \in {200, 201}
      /\ last.load # <<>> )
    => ShownCurrentBoat(last.json[1]) = last.load[1].current_boat

\* C19: a PUT (past content negotiation, every field supplied and valid) of
\* an existing Load is answered 303 with the Load's self link and leaves
\* exactly the supplied weight, content and delivery_date in the store; on an
\* unknown id it is answered 404 and stores nothing.
C19_PutLoadReplaces ==
    [][ ( /\ Arrives
          /\ Arriving.op = "put_load"
          /\ Negotiated(Arriving)
          /\ WellFormedLoad(Arriving.body[1]) )
        => LET key == parseInt(Arriving.load_id)
               body == Arriving.body[1]
           IN IF key \in DOMAIN loads
              THEN /\ reqs' = reqs
                   /\ last'.status = 303
                   /\ last'.json = <<[self |-> <<"loads", ToString(key)>>]>>
                   /\ key \in DOMAIN loads'
                   /\ loads'[key].weight = body.weight
                   /\ loads'[key].content = body.content
                   /\ loads'[key].delivery_date = body.delivery_date
              ELSE /\ reqs' = reqs
                   /\ last'.status = 404
                   /\ UNCHANGED <<boats, loads, tasks>> ]_vars

\* The page served for a collection, a requester and a query.
Served(collection, owner, limit, offset) ==
    { p \in pages : /\ p.page.collection = collection
                    /\ p.owner = owner
                    /\ p.page.limit = limit
                    /\ p.page.offset = offset }

\* The elements of a sequence of ids.
Range(ids) == { ids[i] : i \in 1..Len(ids) }

\* C20: with no write between the calls, the pages list(limit=5, offset=0)
\* and list(limit=5, offset=5) of a collection hold disjoint ids, and the
\* first followed by the second is list(limit=10, offset=0).
C20_PagesConcatenate ==
    \A collection \in {"loads", "boats"}, owner \in Subjects \cup {NoUser} :
        \A first \in Served(collection, owner, "5", "0"),
           second \in Served(collection, owner, "5", "5"),
           both \in Served(collection, owner, "10", "0") :
            /\ Range(first.page.ids) \cap Range(second.page.ids) = {}
            /\ first.page.ids \o second.page.ids = both.page.ids

\* C20, witness: the three pages of the loads were served, the first two
\* full, with a load left beyond them.
C20_Witness ==
    /\ \E first \in Served("loads", NoUser, "5", "0"),
          second \in Served("loads", NoUser, "5", "5"),
          both \in Served("loads", NoUser, "10", "0") :
          Len(first.page.ids) = 5 /\ Len(second.page.ids) = 5
    /\ Cardinality(DOMAIN loads) > 10

\* The offset the next link of a page spells, read as a decimal number: the
\* link's last two parts are the strings limit and offset, one after the other.
NextOffset(page) ==
    DecimalValue(Digits(page.next[3]) \o Digits(page.next[4]), 0)

\* C21: the offset in the next link of a collection page requested with the
\* numeric query parameters limit = l and offset = o is the sum l + o.
C21_NextOffsetIsSum ==
    \A p \in pages :
        NextOffset(p.page) = parseInt(p.page.limit) + parseInt(p.page.offset)

ListedIds(k) == [i \in 1..Len(boats[k].loads) |-> boats[k].loads[i].id]

\* C23: two assigns of the distinct Unassigned loads 1 and 2 to one Boat B,
\* however interleaved, leave both loads with current_boat = B and B.loads
\* with one of them or with both: an interleaving in which B.loads holds
\* only one exists (the witness), one in which it holds neither does not.  (No
\* load is on a boat initially and every request is an assign, so after two
\* requests both loads are on B only if these were the two assigns.)
C23_ConcurrentAssignsKeepOneOrBoth ==
    \A k \in BoatKeys :
        (Quiescent /\ issued = 2 /\ AssignedTo(1, k) /\ AssignedTo(2, k))
        => /\ ListedIds(k) \in {<<"1">>, <<"2">>, <<"1", "2">>, <<"2", "1">>}
           /\ \A other \in BoatKeys \ {k} : boats[other].loads = <<>>

\* C23, witness: both loads have current_boat = B and B.loads holds only one
\* of them.
C23_Witness ==
    \E k \in BoatKeys :
        /\ Quiescent /\ issued = 2
        /\ AssignedTo(1, k) /\ AssignedTo(2, k)
        /\ Len(boats[k].loads) = 1

\* C24: the store write of a PUT or of a PATCH of a Boat (the step in which
\* the handler's put_boat is applied) leaves the Boat's loads list as the
\* store held it, whatever assign or unassign ran since the handler read the
\* Boat.
C24_BoatUpdateKeepsLoads ==
    [][ \A r \in BagToSet(reqs) :
          ( /\ r.op \in {"put_boat", "patch_boat"}
            /\ r.pc = "put_boat"
            /\ CopiesIn(r, reqs') < CopiesIn(r, reqs)
            /\ parseInt(r.boat_id) \in DOMAIN boats )
          => boats'[parseInt(r.boat_id)].loads
                = boats[parseInt(r.boat_id)].loads ]_vars

\* C25: in the step that removes a Boat record from the store, the clear of
\* the back-reference has been performed for every Load in the Boat's loads
\* list: each of them that exists has current_boat = null.
C25_BoatRemovedAfterClears ==
    [][ \A k \in DOMAIN boats :
          k \notin DOMAIN boats'
          => \A i \in 1..Len(boats[k].loads) :
                LET j == parseInt(boats[k].loads[i].id)
                IN j \in DOMAIN loads => loads[j].current_boat = Null ]_vars

\* A loads list without the entries of load key j.
WithoutLoad(list, j) ==
    LET other(entry) == parseInt(entry.id) # j
    IN SelectSeq(list, other)

\* C26: once the writes of an unassign(B, L) that was answered 204 have
\* reached the store, Load L is as the handler read it but for current_boat,
\* which is null, and Boat B is as the handler read it but for its loads list,
\* which is the one it had without the entry of L (the other entries in their
\* order).
C26_UnassignEffect ==
    (Quiescent /\ last.op = "unload_boat" /\ last.status = 204)
    => LET k == parseInt(last.boat_id)
           j == parseInt(last.load_id)
       IN /\ loads[j] = [last.load[1] EXCEPT !.current_boat = Null]
          /\ boats[k] = [last.boat[1] EXCEPT
                            !.loads = WithoutLoad(last.boat[1].loads, j)]

\* The store calls that rejected so far.
RejectedChains == {t.chain : t \in {x \in BagToSet(tasks) : x.fn = "rejected"}}

\* C27: when the one assign made so far found the Load Unassigned and the
\* only store call that failed is the write of Boat.loads, the write of
\* Load.current_boat is not reverted: once everything has settled the Load
\* has current_boat = boatId and the Boat does not list it.
C27_LoadWriteNotReverted ==
    ( /\ Settled /\ issued = 1
      /\ last.op = "load_boat" /\ last.status = 204
      /\ last.load[1].current_boat = Null
      /\ Cardinality(RejectedChains) = 1
      /\ \A chain \in RejectedChains : chain.fn = "save_boat" )
    => /\ loads[parseInt(last.load_id)].current_boat = last.boat_id
       /\ ~ Lists(parseInt(last.boat_id), parseInt(last.load_id))

\* C27, witness: the assign's write of Boat.loads failed, and the Load points
\* at a Boat that does not list it.
C27_Witness ==
    /\ Settled /\ issued = 1
    /\ last.op = "load_boat" /\ last.status = 204
    /\ \E chain \in RejectedChains : chain.fn = "save_boat"
    /\ AssignedTo(parseInt(last.load_id), parseInt(last.boat_id))
    /\ ~ Lists(parseInt(last.boat_id), parseInt(last.load_id))

\* A store call of the cleanup that the delete of boat b started has failed:
\* the read of the boat, or the read or the write of a clear.
ClearFailed(b) ==
    \E chain \in RejectedChains :
        \/ chain \in {Task("delete_boat", b, b), RemoveTask(b)}
        \/ chain.fn = "save_load" /\ chain.key = parseInt(b)

\* C28: a failed clear never prevents the Boat's removal: a Boat delete whose
\* cleanup has failed can always go on to remove the Boat record, and a
\* delete that was answered 204 has removed it.
C28_FailedClearKeepsRemoval ==
    /\ \A r \in BagToSet(reqs) :
          (r.op = "delete_boat" /\ r.pc = "delete" /\ ClearFailed(r.boat_id))
          => ENABLED boatController_delete_boat_delete(r)
    /\ (last.op = "delete_boat" /\ last.status = 204 /\ ClearFailed(last.boat_id))
       => parseInt(last.boat_id) \notin DOMAIN boats

\* C28, witness: the delete of a Boat that had loads was answered 204 and the
\* Boat is gone, while a store call of its cleanup had failed.
C28_Witness ==
    /\ last.op = "delete_boat" /\ last.status = 204
    /\ Len(last.boat[1].loads) > 0
    /\ ClearFailed(last.boat_id)
    /\ parseInt(last.boat_id) \notin DOMAIN boats

\* C29: an assign that names a boat id the store has no Boat for when it
\* arrives, or a load id the store has no Load for when it is answered, is
\* answered 404 in a step that writes nothing and starts no write.
C29_AssignUnknownNotFound ==
    [][ /\ ( /\ Arrives
             /\ Arriving.op = "load_boat"
             /\ ArrivingBoat = <<>> )
           => /\ reqs' = reqs
              /\ last'.status = 404
              /\ UNCHANGED <<boats, loads, tasks>>
        /\ ( /\ Responds
             /\ last'.op = "load_boat"
             /\ parseInt(last'.load_id) \notin DOMAIN loads )
           => /\ last'.status = 404
              /\ UNCHANGED <<boats, loads, tasks>> ]_vars

\* C29, witness: an assign to a boat id with no Boat was answered 404.
C29_Witness ==
    /\ last.op = "load_boat"
    /\ last.status = 404
    /\ last.boat = <<>>
    /\ parseInt(last.boat_id) \notin DOMAIN boats

\* A Boat with exactly the fields a PATCH body supplies set to its values.
PatchedBoat(boat, body) ==
    [name |-> IF body.name = Undefined THEN boat.name ELSE body.name,
     type |-> IF body.type = Undefined THEN boat.type ELSE body.type,
     length |-> IF body.length = 0 THEN boat.length ELSE body.length,
     public |-> IF body.public = Undefined THEN boat.public ELSE body.public,
     owner |-> IF body.owner = Undefined THEN boat.owner ELSE body.owner,
     loads |-> boat.loads]

\* A Load with exactly the fields a PATCH body supplies set to its values.
PatchedLoad(load, body) ==
    [weight |-> IF body.weight = 0 THEN load.weight ELSE body.weight,
     content |-> IF body.content = Undefined THEN load.content
                 ELSE body.content,
     delivery_date |-> IF body.delivery_date = Undefined
                       THEN load.delivery_date ELSE body.delivery_date,
     current_boat |-> IF body.current_boat = Undefined
                      THEN load.current_boat ELSE body.current_boat]

\* A PATCH body for a Load: no id, a field supplied, the content valid.
WellFormedLoadPatch(body) ==
    /\ Not(body.id)
    /\ \/ body.weight # 0 \/ body.content # Undefined
       \/ body.delivery_date # Undefined \/ body.current_boat # Undefined
    /\ body.content \notin {"nuts & bolts", "2000"}

\* C30: a PATCH (past content negotiation, a valid non-empty subset of the
\* fields) of an existing Boat by its owner, or of an existing Load, is
\* accepted, stores the entity with exactly the supplied fields set to the
\* supplied values, and is answered 200.
C30_PatchMerges ==
    [][ /\ ( /\ Arrives
             /\ Arriving.op = "patch_boat"
             /\ Negotiated(Arriving)
             /\ WellFormedBoat("patch_boat", Arriving.body[1])
             /\ ArrivingBoat # <<>>
             /\ ArrivingBoat[1].owner = Arriving.userid )
           => reqs' # reqs /\ Arriving.pc = "put_boat"
        /\ \A r \in BagToSet(reqs) :
              ( /\ r.op = "patch_boat" /\ r.pc = "put_boat"
                /\ CopiesIn(r, reqs') < CopiesIn(r, reqs) )
              => boats'[parseInt(r.boat_id)]
                    = PatchedBoat(boats[parseInt(r.boat_id)], r.body[1])
        /\ (Responds /\ ~ Arrives /\ last'.op = "patch_boat")
           => last'.status = 200
        /\ ( /\ Arrives
             /\ Arriving.op = "patch_load"
             /\ Negotiated(Arriving)
             /\ WellFormedLoadPatch(Arriving.body[1])
             /\ parseInt(Arriving.load_id) \in DOMAIN loads )
           => /\ reqs' = reqs
              /\ last'.status = 200
              /\ loads'[parseInt(Arriving.load_id)]
                    = PatchedLoad(loads[parseInt(Arriving.load_id)],
                                  Arriving.body[1]) ]_vars

\* C31: a record that a DELETE has removed never exists in the store again.
\* No request of this specification creates a Boat or a Load, so every key a
\* step adds to a kind is the key of a record that was deleted: no step adds
\* one.
C31_DeletedStaysDeleted ==
    [][ /\ DOMAIN loads' \subseteq DOMAIN loads
        /\ DOMAIN boats' \subseteq DOMAIN boats ]_vars

\* The handler that answered last served a requester authenticated as the
\* owner of the boat it read.
LastByOwner ==
    /\ last.boat # <<>>
    /\ last.userid # NoUser
    /\ last.boat[1].owner = last.userid

\* C32: an assign or unassign request of a requester who is not
\* authenticated as the Boat's owner leaves the Boat and the Load it names
\* (both exist: the handler read them) unchanged, as seen once the request
\* and the chains it started have finished.
C32_OnlyOwnerAssigns ==
    ( /\ Quiescent
      /\ last.op \in {"load_boat", "unload_boat"}
      /\ last.boat # <<>>
      /\ last.load # <<>>
      /\ ~ LastByOwner )
    => LastLeftUnchanged

\* C33: a Boat is created only by a request that carries a valid token, and
\* the owner stored on the created Boat is the subject id of that requester.
C33_CreatedBoatOwnedByRequester ==
    ( /\ last.op = "create_boat"
      /\ last.status = 201 )
    => /\ last.userid \in Subjects
       /\ last.key \in DOMAIN boats
       /\ boats[last.key].owner = last.userid

\* C34: the public listing and the item endpoint agree on which Boats are
\* public: a stored Boat is among the results of the unauthenticated
\* GET /boats query exactly when GET /boats/{id} does not refuse it to an
\* authenticated subject who is not its owner.  (Stated of the Boats that a
\* POST /boats of this behaviour has stored: their keys are the allocated
\* ones.)
C34_ListingAgreesWithItem ==
    \A k \in DOMAIN boats \ BoatKeys, u \in Subjects :
        boats[k].owner # u
        => ( k \in Range(get_all_public_boats(Undefined, Undefined))
             <=> ~ get_boat_forbidden(boats[k], u) )

====
